---- MODULE Spec2Model ----
(***************************************************************************)
(* A state-machine model of src/src/screens/MapScreen.tsx: the map screen  *)
(* of the resident app.  The screen's React state (location, bins,         *)
(* selectedBin, loading, reportVisible, reportText, images) is the         *)
(* program state; every event handler and every continuation of an         *)
(* awaited call (permission request, position fix, getBinsNearby, image    *)
(* picker) is one action.  The JavaScript event loop runs each handler and *)
(* each continuation to its next await without interleaving, so an action  *)
(* is atomic.                                                              *)
(*                                                                         *)
(* Ghost variables (not in the source) record what the handlers did:       *)
(*   event        the handler or continuation that ran last                *)
(*   calls        every getBinsNearby call issued so far, with arguments   *)
(*   alerts       the titles passed to Alert.alert, in order               *)
(*   console      the first argument of each console.error / console.log   *)
(*   permResult   the status the permission request resolved to            *)
(*   lastResponse the response of the last getBinsNearby call that         *)
(*                resolved successfully                                    *)
(*   picked       the concatenation of the asset lists of the image picks  *)
(*                that completed since the last submit                     *)
(*                                                                         *)
(* Coordinates are integers in thousandths of a degree.                    *)
(***************************************************************************)
EXTENDS Integers, Sequences, FiniteSets, TLC

VARIABLES location, bins, selectedBin, loading, reportVisible, reportText,
          images, initPc, pending, pick, event, calls, alerts, console,
          permResult, lastResponse, picked, fillLevel, color

screen == <<location, bins, selectedBin, loading, reportVisible, reportText, images>>

vars == <<location, bins, selectedBin, loading, reportVisible, reportText,
          images, initPc, pending, pick, event, calls, alerts, console,
          permResult, lastResponse, picked, fillLevel, color>>

\* ------------------------------------------------------------------ bounds

\* getBinsNearby calls issued in one run (the initial one and the refreshes).
MaxFetches == 2
\* Length of the draft image list.
MaxImages == 5
\* Alert.alert calls of the handlers the user can repeat (submit, driver button).
MaxUserAlerts == 1
\* Fill levels range over MinFill..MaxFill: below 0 and above 100 included.
FillMargin == 15

\* ------------------------------------------------------------------ data

\* A nullable value: null is the empty sequence, a value v is <<v>>.
Null == <<>>
Some(v) == <<v>>
Val(o) == o[1]

\* The radius both getBinsNearby calls pass.
Radius == 500

Bin(id, lon, lat, fill) ==
    [_id |-> id, coordinates |-> <<lon, lat>>, fillLevel |-> fill]

\* Positions the device may report.
Positions ==
    { [latitude |-> 40000, longitude |-> -73000],
      [latitude |-> 41000, longitude |-> -74000] }

\* Responses getBinsNearby may resolve to.
Responses ==
    { <<>>,
      << Bin("a", -73001, 40001, 95), Bin("b", -73002, 40002, 40) >>,
      << Bin("b", -73002, 40002, 72) >> }

\* Statuses requestForegroundPermissionsAsync may resolve to.
PermissionStatuses == {"granted", "denied", "undetermined"}

\* Texts the user may type in the report's text input.
Texts == {"", "bin full"}

\* Asset lists the image picker may resolve to.
PickResults == { <<"u1", "u2">>, <<"u3", "u4", "u5">> }

MinFill == 0 - FillMargin
MaxFill == 100 + FillMargin
FillLevels == MinFill .. MaxFill

Range(s) == { s[i] : i \in 1 .. Len(s) }

\* ------------------------------------------------------- pure functions

\* A faulty variant of getFillLevelColor: the thresholds are exclusive.
getFillLevelColor_offByOne(f) ==
    IF f > 90 THEN "#EF4444"
    ELSE IF f > 70 THEN "#F59E0B"
    ELSE IF f > 50 THEN "#FBBF24"
    ELSE "#10B981"

\* Thresholds tested in descending order, the first match returns.
getFillLevelColor(f) ==
    IF f >= 90 THEN "#EF4444"
    ELSE IF f >= 70 THEN "#F59E0B"
    ELSE IF f >= 50 THEN "#FBBF24"
    ELSE "#10B981"

\* ------------------------------------------------------------------ init

\* The state of the first render: the useState initial values, nothing awaited.
ScreenInit ==
    /\ location = Null
    /\ bins = <<>>
    /\ selectedBin = Null
    /\ loading = TRUE
    /\ reportVisible = FALSE
    /\ reportText = ""
    /\ images = <<>>
    /\ initPc = "mount"
    /\ pending = {}
    /\ pick = Null
    /\ event = "render"
    /\ calls = <<>>
    /\ alerts = <<>>
    /\ console = <<>>
    /\ permResult = "none"
    /\ lastResponse = <<>>
    /\ picked = <<>>

Init ==
    /\ ScreenInit
    /\ fillLevel = 0
    /\ color = ""

\* ------------------------------------------- initial load (useEffect)

\* The effect runs after the first render: setLoading(true), then the
\* permission request is awaited.
Mount ==
    /\ initPc = "mount"
    /\ loading' = TRUE
    /\ initPc' = "permission"
    /\ event' = "Mount"
    /\ UNCHANGED <<location, bins, selectedBin, reportVisible, reportText, images,
                   pending, pick, calls, alerts, console, permResult,
                   lastResponse, picked, fillLevel, color>>

\* A faulty variant of InitialCatch: the catch block without the finally
\* block, so loading is not cleared.
InitialCatch_noFinally ==
    /\ console' = Append(console, "Error loading map data:")
    /\ alerts' = Append(alerts, "Error")
    /\ loading' = loading
    /\ initPc' = "done"

\* The catch and finally blocks of the initial load.
InitialCatch ==
    /\ console' = Append(console, "Error loading map data:")
    /\ alerts' = Append(alerts, "Error")
    /\ loading' = FALSE
    /\ initPc' = "done"

\* A faulty variant of PermissionResolve: the return after the alert is
\* missing, so the load goes on to the position fix.
PermissionResolve_noReturn(status) ==
    /\ initPc = "permission"
    /\ permResult' = status
    /\ event' = "PermissionResolve"
    /\ IF status # "granted"
       THEN /\ alerts' = Append(alerts, "Permission to access location was denied")
            /\ loading' = FALSE
            /\ initPc' = "position"
       ELSE /\ initPc' = "position"
            /\ UNCHANGED <<alerts, loading>>
    /\ UNCHANGED <<location, bins, selectedBin, reportVisible, reportText, images,
                   pending, pick, calls, console, lastResponse,
                   picked, fillLevel, color>>

\* The permission request resolves with a status.  Anything but "granted"
\* alerts, clears loading and returns (the finally block clears it again).
PermissionResolve(status) ==
    /\ initPc = "permission"
    /\ permResult' = status
    /\ event' = "PermissionResolve"
    /\ IF status # "granted"
       THEN /\ alerts' = Append(alerts, "Permission to access location was denied")
            /\ loading' = FALSE
            /\ initPc' = "done"
       ELSE /\ initPc' = "position"
            /\ UNCHANGED <<alerts, loading>>
    /\ UNCHANGED <<location, bins, selectedBin, reportVisible, reportText, images,
                   pending, pick, calls, console, lastResponse,
                   picked, fillLevel, color>>

\* The permission request throws.
PermissionReject ==
    /\ initPc = "permission"
    /\ InitialCatch
    /\ event' = "PermissionReject"
    /\ UNCHANGED <<location, bins, selectedBin, reportVisible, reportText, images,
                   pending, pick, calls, permResult, lastResponse,
                   picked, fillLevel, color>>

\* The arguments of a getBinsNearby call.
Call(origin, lat, lon) ==
    [origin |-> origin, latitude |-> lat, longitude |-> lon, radius |-> Radius]

\* A faulty variant of PositionResolve: setLocation is missing.
PositionResolve_noSetLocation(pos) ==
    /\ initPc = "position"
    /\ location' = location
    /\ calls' = Append(calls, Call("initial", pos.latitude, pos.longitude))
    /\ pending' = pending \cup {Len(calls) + 1}
    /\ initPc' = "fetch"
    /\ event' = "PositionResolve"
    /\ UNCHANGED <<bins, selectedBin, loading, reportVisible, reportText, images,
                   pick, alerts, console, permResult, lastResponse,
                   picked, fillLevel, color>>

\* The position fix resolves: setLocation, then getBinsNearby is called with
\* the coordinates of the fix and awaited.
PositionResolve(pos) ==
    /\ initPc = "position"
    /\ location' = Some([latitude |-> pos.latitude, longitude |-> pos.longitude])
    /\ calls' = Append(calls, Call("initial", pos.latitude, pos.longitude))
    /\ pending' = pending \cup {Len(calls) + 1}
    /\ initPc' = "fetch"
    /\ event' = "PositionResolve"
    /\ UNCHANGED <<bins, selectedBin, loading, reportVisible, reportText, images,
                   pick, alerts, console, permResult, lastResponse,
                   picked, fillLevel, color>>

\* The position fix throws.
PositionReject ==
    /\ initPc = "position"
    /\ InitialCatch
    /\ event' = "PositionReject"
    /\ UNCHANGED <<location, bins, selectedBin, reportVisible, reportText, images,
                   pending, pick, calls, permResult, lastResponse,
                   picked, fillLevel, color>>

\* The initial getBinsNearby call resolves: setBins, then finally.
InitialFetchResolve(id, resp) ==
    /\ initPc = "fetch"
    /\ id \in pending
    /\ calls[id].origin = "initial"
    /\ bins' = resp
    /\ lastResponse' = resp
    /\ loading' = FALSE
    /\ pending' = pending \ {id}
    /\ initPc' = "done"
    /\ event' = "InitialFetchResolve"
    /\ UNCHANGED <<location, selectedBin, reportVisible, reportText, images, pick,
                   calls, alerts, console, permResult, picked,
                   fillLevel, color>>

\* A faulty variant of InitialFetchReject: the catch block resets the location.
InitialFetchReject_resetsLocation(id) ==
    /\ initPc = "fetch"
    /\ id \in pending
    /\ calls[id].origin = "initial"
    /\ InitialCatch
    /\ location' = Null
    /\ pending' = pending \ {id}
    /\ event' = "InitialFetchReject"
    /\ UNCHANGED <<bins, selectedBin, reportVisible, reportText, images,
                   pick, calls, permResult, lastResponse, picked,
                   fillLevel, color>>

\* The initial getBinsNearby call throws: catch, then finally.
InitialFetchReject(id) ==
    /\ initPc = "fetch"
    /\ id \in pending
    /\ calls[id].origin = "initial"
    /\ InitialCatch
    /\ pending' = pending \ {id}
    /\ event' = "InitialFetchReject"
    /\ UNCHANGED <<location, bins, selectedBin, reportVisible, reportText, images,
                   pick, calls, permResult, lastResponse, picked,
                   fillLevel, color>>

\* ------------------------------------------------------------ UI events

\* The alerts raised so far by the handlers the user can repeat.
UserAlerts ==
    Cardinality({ i \in 1 .. Len(alerts) : alerts[i] \in {"Success", "Driver Section"} })

\* A press reaches the screen's handlers once the effect of the first render
\* has run (React runs pending effects before it handles an event) and while
\* no image pick is awaited: launchImageLibraryAsync opens the system image
\* library over the app, and while it is open the screen receives no
\* presses.  Awaited calls of the loads still settle meanwhile.
UIFree == initPc # "mount" /\ pick = Null

\* A faulty variant of RefreshDisabled: the button is never disabled.
RefreshDisabled_never == FALSE

\* The refresh button is rendered with disabled={loading}.
RefreshDisabled == loading

\* A faulty variant of refreshBins, without its early return: reading
\* location.latitude then throws inside the try, which is caught and logged,
\* and finally clears loading.
refreshBins_noGuard ==
    /\ UIFree
    /\ ~RefreshDisabled
    /\ event' = "refreshBins"
    /\ IF location = Null
       THEN /\ console' = Append(console, "Error refreshing bins:")
            /\ loading' = FALSE
            /\ UNCHANGED <<calls, pending>>
       ELSE /\ Len(calls) < MaxFetches
            /\ loading' = TRUE
            /\ calls' = Append(calls, Call("refresh", Val(location).latitude,
                                           Val(location).longitude))
            /\ pending' = pending \cup {Len(calls) + 1}
            /\ UNCHANGED console
    /\ UNCHANGED <<location, bins, selectedBin, reportVisible, reportText, images,
                   initPc, pick, alerts, permResult,
                   lastResponse, picked, fillLevel, color>>

\* A faulty variant of refreshBins: longitude and latitude are passed in the
\* order of the bins' coordinate pairs.
refreshBins_swapped ==
    /\ UIFree
    /\ ~RefreshDisabled
    /\ event' = "refreshBins"
    /\ IF location = Null
       THEN UNCHANGED <<loading, calls, pending>>
       ELSE /\ Len(calls) < MaxFetches
            /\ loading' = TRUE
            /\ calls' = Append(calls, Call("refresh", Val(location).longitude,
                                           Val(location).latitude))
            /\ pending' = pending \cup {Len(calls) + 1}
    /\ UNCHANGED <<location, bins, selectedBin, reportVisible, reportText, images,
                   initPc, pick, alerts, console, permResult,
                   lastResponse, picked, fillLevel, color>>

\* A faulty variant of refreshBins: setLoading(true) is missing.
refreshBins_noSetLoading ==
    /\ UIFree
    /\ ~RefreshDisabled
    /\ event' = "refreshBins"
    /\ IF location = Null
       THEN UNCHANGED <<loading, calls, pending>>
       ELSE /\ Len(calls) < MaxFetches
            /\ loading' = loading
            /\ calls' = Append(calls, Call("refresh", Val(location).latitude,
                                           Val(location).longitude))
            /\ pending' = pending \cup {Len(calls) + 1}
    /\ UNCHANGED <<location, bins, selectedBin, reportVisible, reportText, images,
                   initPc, pick, alerts, console, permResult,
                   lastResponse, picked, fillLevel, color>>

\* A faulty variant of refreshBins: with no location it queries around the
\* origin instead of returning.
refreshBins_defaultLocation ==
    /\ UIFree
    /\ ~RefreshDisabled
    /\ event' = "refreshBins"
    /\ IF location = Null
       THEN /\ Len(calls) < MaxFetches
            /\ loading' = TRUE
            /\ calls' = Append(calls, Call("refresh", 0, 0))
            /\ pending' = pending \cup {Len(calls) + 1}
       ELSE /\ Len(calls) < MaxFetches
            /\ loading' = TRUE
            /\ calls' = Append(calls, Call("refresh", Val(location).latitude,
                                           Val(location).longitude))
            /\ pending' = pending \cup {Len(calls) + 1}
    /\ UNCHANGED <<location, bins, selectedBin, reportVisible, reportText, images,
                   initPc, pick, alerts, console, permResult,
                   lastResponse, picked, fillLevel, color>>

\* The refresh button is pressed: return when there is no location, else
\* setLoading(true) and getBinsNearby is called with the stored location.
refreshBins ==
    /\ UIFree
    /\ ~RefreshDisabled
    /\ event' = "refreshBins"
    /\ IF location = Null
       THEN UNCHANGED <<loading, calls, pending>>
       ELSE /\ Len(calls) < MaxFetches
            /\ loading' = TRUE
            /\ calls' = Append(calls, Call("refresh", Val(location).latitude,
                                           Val(location).longitude))
            /\ pending' = pending \cup {Len(calls) + 1}
    /\ UNCHANGED <<location, bins, selectedBin, reportVisible, reportText, images,
                   initPc, pick, alerts, console, permResult,
                   lastResponse, picked, fillLevel, color>>

\* A faulty variant of RefreshResolve: the response is appended to the bins
\* held instead of replacing them.
RefreshResolve_merge(id, resp) ==
    /\ id \in pending
    /\ calls[id].origin = "refresh"
    /\ bins' = bins \o resp
    /\ lastResponse' = resp
    /\ loading' = FALSE
    /\ pending' = pending \ {id}
    /\ event' = "RefreshResolve"
    /\ UNCHANGED <<location, selectedBin, reportVisible, reportText, images,
                   initPc, pick, calls, alerts, console, permResult,
                   picked, fillLevel, color>>

\* A faulty variant of RefreshResolve: the selection is cleared with the old
\* bins.
RefreshResolve_clearsSelection(id, resp) ==
    /\ id \in pending
    /\ calls[id].origin = "refresh"
    /\ bins' = resp
    /\ lastResponse' = resp
    /\ selectedBin' = Null
    /\ loading' = FALSE
    /\ pending' = pending \ {id}
    /\ event' = "RefreshResolve"
    /\ UNCHANGED <<location, reportVisible, reportText, images,
                   initPc, pick, calls, alerts, console, permResult,
                   picked, fillLevel, color>>

\* A faulty variant of RefreshResolve: the selection follows the new list, to
\* the bin with the selected id, or to null when there is none.
RefreshResolve_reselects(id, resp) ==
    /\ id \in pending
    /\ calls[id].origin = "refresh"
    /\ bins' = resp
    /\ lastResponse' = resp
    /\ selectedBin' =
          IF selectedBin # Null /\ \E b \in Range(resp) : b._id = Val(selectedBin)._id
          THEN Some(CHOOSE b \in Range(resp) : b._id = Val(selectedBin)._id)
          ELSE Null
    /\ loading' = FALSE
    /\ pending' = pending \ {id}
    /\ event' = "RefreshResolve"
    /\ UNCHANGED <<location, reportVisible, reportText, images,
                   initPc, pick, calls, alerts, console, permResult,
                   picked, fillLevel, color>>

\* A refresh's getBinsNearby call resolves: setBins, then finally.
RefreshResolve(id, resp) ==
    /\ id \in pending
    /\ calls[id].origin = "refresh"
    /\ bins' = resp
    /\ lastResponse' = resp
    /\ loading' = FALSE
    /\ pending' = pending \ {id}
    /\ event' = "RefreshResolve"
    /\ UNCHANGED <<location, selectedBin, reportVisible, reportText, images,
                   initPc, pick, calls, alerts, console, permResult,
                   picked, fillLevel, color>>

\* A faulty variant of RefreshReject: the catch block empties the bin list.
RefreshReject_clearsBins(id) ==
    /\ id \in pending
    /\ calls[id].origin = "refresh"
    /\ console' = Append(console, "Error refreshing bins:")
    /\ bins' = <<>>
    /\ loading' = FALSE
    /\ pending' = pending \ {id}
    /\ event' = "RefreshReject"
    /\ UNCHANGED <<location, selectedBin, reportVisible, reportText, images,
                   initPc, pick, calls, alerts, permResult,
                   lastResponse, picked, fillLevel, color>>

\* A faulty variant of RefreshReject: the catch block alerts the user as the
\* initial load's does.
RefreshReject_alerts(id) ==
    /\ id \in pending
    /\ calls[id].origin = "refresh"
    /\ console' = Append(console, "Error refreshing bins:")
    /\ alerts' = Append(alerts, "Error")
    /\ loading' = FALSE
    /\ pending' = pending \ {id}
    /\ event' = "RefreshReject"
    /\ UNCHANGED <<location, bins, selectedBin, reportVisible, reportText, images,
                   initPc, pick, calls, permResult,
                   lastResponse, picked, fillLevel, color>>

\* A refresh's getBinsNearby call throws: catch (log only), then finally.
RefreshReject(id) ==
    /\ id \in pending
    /\ calls[id].origin = "refresh"
    /\ console' = Append(console, "Error refreshing bins:")
    /\ loading' = FALSE
    /\ pending' = pending \ {id}
    /\ event' = "RefreshReject"
    /\ UNCHANGED <<location, bins, selectedBin, reportVisible, reportText, images,
                   initPc, pick, calls, alerts, permResult,
                   lastResponse, picked, fillLevel, color>>

\* A faulty variant of MarkerPress: selecting a bin also closes the report
\* modal.
MarkerPress_closesReport(bin) ==
    /\ UIFree
    /\ location # Null
    /\ bin \in Range(bins)
    /\ selectedBin' = Some(bin)
    /\ reportVisible' = FALSE
    /\ event' = "MarkerPress"
    /\ UNCHANGED <<location, bins, loading, reportText, images,
                   initPc, pending, pick, calls, alerts, console, permResult, lastResponse, picked, fillLevel, color>>

\* A marker is pressed.  Markers are rendered, one per bin, inside the map,
\* which is rendered when location is set.
MarkerPress(bin) ==
    /\ UIFree
    /\ location # Null
    /\ bin \in Range(bins)
    /\ selectedBin' = Some(bin)
    /\ event' = "MarkerPress"
    /\ UNCHANGED <<location, bins, loading, reportVisible, reportText, images,
                   initPc, pending, pick, calls, alerts, console, permResult, lastResponse, picked, fillLevel, color>>

\* The Report button is pressed.
openReport ==
    /\ UIFree
    /\ reportVisible' = TRUE
    /\ event' = "openReport"
    /\ UNCHANGED <<location, bins, selectedBin, loading, reportText, images,
                   initPc, pending, pick, calls, alerts, console, permResult, lastResponse, picked, fillLevel, color>>

\* The text input of the report modal changes.
changeReportText(t) ==
    /\ UIFree
    /\ reportVisible
    /\ reportText' = t
    /\ event' = "changeReportText"
    /\ UNCHANGED <<location, bins, selectedBin, loading, reportVisible, images,
                   initPc, pending, pick, calls, alerts, console, permResult, lastResponse, picked, fillLevel, color>>

\* Pick Images is pressed: the picker is launched and awaited.  The
\* continuation closes over the images of the render the press came from.
pickImages ==
    /\ UIFree
    /\ reportVisible
    /\ pick' = Some(images)
    /\ event' = "pickImages"
    /\ UNCHANGED <<location, bins, selectedBin, loading, reportVisible, reportText,
                   images, initPc, pending, calls, alerts, console, permResult, lastResponse, picked, fillLevel, color>>

\* A faulty variant of PickedImages: the picked images replace the held ones.
PickedImages_replace(captured, uris) == uris

\* [...images, ...uris]
PickedImages(captured, uris) == captured \o uris

\* The picker resolves with assets.
pickImagesResolve(uris) ==
    /\ pick # Null
    /\ Len(Val(pick)) + Len(uris) <= MaxImages
    /\ images' = PickedImages(Val(pick), uris)
    /\ picked' = picked \o uris
    /\ pick' = Null
    /\ event' = "pickImagesResolve"
    /\ UNCHANGED <<location, bins, selectedBin, loading, reportVisible, reportText,
                   initPc, pending, calls, alerts, console, permResult, lastResponse, fillLevel, color>>

\* A faulty variant of pickImagesCanceled: a cancelled pick empties the image
\* list.
pickImagesCanceled_clearsImages ==
    /\ pick # Null
    /\ pick' = Null
    /\ images' = <<>>
    /\ event' = "pickImagesCanceled"
    /\ UNCHANGED <<location, bins, selectedBin, loading, reportVisible, reportText,
                   initPc, pending, calls, alerts, console, permResult, lastResponse, picked, fillLevel, color>>

\* The picker resolves with canceled set.
pickImagesCanceled ==
    /\ pick # Null
    /\ pick' = Null
    /\ event' = "pickImagesCanceled"
    /\ UNCHANGED <<location, bins, selectedBin, loading, reportVisible, reportText,
                   images, initPc, pending, calls, alerts, console, permResult, lastResponse, picked, fillLevel, color>>

\* Cancel is pressed in the report modal.
cancelReport ==
    /\ UIFree
    /\ reportVisible
    /\ reportVisible' = FALSE
    /\ event' = "cancelReport"
    /\ UNCHANGED <<location, bins, selectedBin, loading, reportText, images,
                   initPc, pending, pick, calls, alerts, console, permResult, lastResponse, picked, fillLevel, color>>

\* A faulty variant of submitReport: setImages([]) is missing.
submitReport_keepsImages ==
    /\ UIFree
    /\ reportVisible
    /\ UserAlerts < MaxUserAlerts
    /\ console' = Append(console, "Report Submitted:")
    /\ reportVisible' = FALSE
    /\ reportText' = ""
    /\ images' = images
    /\ picked' = <<>>
    /\ alerts' = Append(alerts, "Success")
    /\ event' = "submitReport"
    /\ UNCHANGED <<location, bins, selectedBin, loading, initPc, pending, pick,
                   calls, permResult, lastResponse, fillLevel, color>>

\* Submit is pressed in the report modal.
submitReport ==
    /\ UIFree
    /\ reportVisible
    /\ UserAlerts < MaxUserAlerts
    /\ console' = Append(console, "Report Submitted:")
    /\ reportVisible' = FALSE
    /\ reportText' = ""
    /\ images' = <<>>
    /\ picked' = <<>>
    /\ alerts' = Append(alerts, "Success")
    /\ event' = "submitReport"
    /\ UNCHANGED <<location, bins, selectedBin, loading, initPc, pending, pick,
                   calls, permResult, lastResponse, fillLevel, color>>

\* The first truck button is pressed: navigation.navigate('CollectorLogin'),
\* which changes no state of the screen.
navigateToCollectorLogin ==
    /\ UIFree
    /\ event' = "navigateToCollectorLogin"
    /\ UNCHANGED <<location, bins, selectedBin, loading, reportVisible, reportText,
                   images, initPc, pending, pick, calls, alerts, console,
                   permResult, lastResponse, picked, fillLevel, color>>

\* The second truck button is pressed.
driverSection ==
    /\ UIFree
    /\ UserAlerts < MaxUserAlerts
    /\ alerts' = Append(alerts, "Driver Section")
    /\ event' = "driverSection"
    /\ UNCHANGED <<location, bins, selectedBin, loading, reportVisible, reportText,
                   images, initPc, pending, pick, calls, console, permResult, lastResponse, picked, fillLevel, color>>

\* ---------------------------------------------------------------- render

\* The markers rendered: the MapView is rendered when location is set, with
\* one Marker per element of bins, keyed by the bin's _id, at the bin's
\* coordinates (latitude is coordinates[1], longitude coordinates[0] of the
\* source's 0-based pair) and coloured by its fill level.
Markers ==
    IF location = Null
    THEN <<>>
    ELSE [ i \in 1 .. Len(bins) |->
             [ key |-> bins[i]._id,
               latitude |-> bins[i].coordinates[2],
               longitude |-> bins[i].coordinates[1],
               backgroundColor |-> getFillLevelColor(bins[i].fillLevel) ] ]

\* --------------------------------------------------------- specification

\* The steps the runtime takes by itself: the effect, and the settling of
\* every awaited call of the two loads.
Settle ==
    \/ Mount
    \/ \E status \in PermissionStatuses : PermissionResolve(status)
    \/ PermissionReject
    \/ \E pos \in Positions : PositionResolve(pos)
    \/ PositionReject
    \/ \E id \in pending, resp \in Responses : InitialFetchResolve(id, resp)
    \/ \E id \in pending : InitialFetchReject(id)
    \/ \E id \in pending, resp \in Responses : RefreshResolve(id, resp)
    \/ \E id \in pending : RefreshReject(id)

\* The steps the user takes, and the image picker's answers.
User ==
    \/ refreshBins
    \/ \E bin \in Range(bins) : MarkerPress(bin)
    \/ openReport
    \/ \E t \in Texts : changeReportText(t)
    \/ pickImages
    \/ \E uris \in PickResults : pickImagesResolve(uris)
    \/ pickImagesCanceled
    \/ cancelReport
    \/ submitReport
    \/ navigateToCollectorLogin
    \/ driverSection

Next == Settle \/ User

Spec == Init /\ [][Next]_vars

\* Every awaited call of the loads eventually resolves or fails, and the
\* effect runs.
FairSpec == Spec /\ WF_vars(Settle)

\* ------------------------------------------------- marker colour alone

\* A marker's inner view is rendered with backgroundColor
\* getFillLevelColor(bin.fillLevel).
RenderMarker ==
    /\ color' = getFillLevelColor(fillLevel)
    /\ event' = "RenderMarker"
    /\ UNCHANGED <<location, bins, selectedBin, loading, reportVisible, reportText,
                   images, initPc, pending, pick, calls, alerts, console,
                   permResult, lastResponse, picked, fillLevel>>

\* A bin of any fill level, its marker not rendered yet.
InitColor ==
    /\ ScreenInit
    /\ fillLevel \in FillLevels
    /\ color = ""

NextColor == RenderMarker

SpecColor == InitColor /\ [][NextColor]_vars

\* ------------------------------------------------------------- properties

\* C1: once the permission request has resolved to anything other than
\* granted, the bin list is empty, the location is unset and getBinsNearby
\* has never been called, in every later state.
C1_DeniedNeverLoads ==
    permResult \notin {"none", "granted"}
        => (bins = <<>> /\ location = Null /\ calls = <<>>)

\* Refresh has been pressed after the permission was denied.
C1_Witness == permResult = "denied" /\ event = "refreshBins"

\* C2: when every awaited call settles, loading being true is always
\* followed by loading being false.
C2_LoadingClears == loading ~> ~loading

\* A refresh set loading, its fetch failed, and loading is false again.
C2_Witness == event = "RefreshReject" /\ ~loading

\* C3: a step that handles a failed getBinsNearby call, of the initial load
\* or of a refresh, leaves the bin list as it was.
C3_FailedFetchKeepsBins ==
    [][event' \in {"InitialFetchReject", "RefreshReject"} => bins' = bins]_vars

\* A refresh failed while bins were shown.
C3_Witness == event = "RefreshReject" /\ bins # <<>>

\* C4: the bin list is the response of the getBinsNearby call that resolved
\* successfully last, and empty when none has.
C4_BinsAreLastResponse == bins = lastResponse

\* A refresh replaced the two bins of the initial load by one bin.
C4_Witness ==
    /\ event = "RefreshResolve"
    /\ Len(calls) = 2
    /\ Len(bins) = 1
    /\ selectedBin # Null
    /\ Val(selectedBin)._id = "a"

\* C5: refreshBins run with no location issues no call and changes no state
\* of the screen.
C5_RefreshWithoutLocationIsNoop ==
    [][(event' = "refreshBins" /\ location = Null)
        => UNCHANGED <<screen, initPc, pending, pick, calls, alerts, console>>]_vars

\* Refresh has been pressed with no location.
C5_Witness == event = "refreshBins" /\ location = Null /\ ~loading

\* C6, as claimed: the loads are not mutually exclusive, so while the initial
\* load's getBinsNearby call is in flight Refresh can be pressed to put a
\* second call in flight.
C6_RefreshDuringInitialFetch ==
    (initPc = "fetch" /\ pending # {} /\ UIFree) => ENABLED refreshBins

\* C6, amended: the loads are mutually exclusive; at most one getBinsNearby
\* call is in flight.
C6_AtMostOneFetchInFlight == Cardinality(pending) <= 1

\* A refresh's call is in flight after the initial load loaded bins.
C6_Witness ==
    /\ initPc = "done"
    /\ bins # <<>>
    /\ \E id \in pending : calls[id].origin = "refresh"

\* C7: the colour is red iff f >= 90, amber iff 70 <= f < 90, yellow iff
\* 50 <= f < 70 and green iff f < 50, for fill levels below 0 and above 100
\* too.
C7_ColorThresholds ==
    color # "" =>
        /\ (color = "#EF4444") <=> (fillLevel >= 90)
        /\ (color = "#F59E0B") <=> (70 <= fillLevel /\ fillLevel < 90)
        /\ (color = "#FBBF24") <=> (50 <= fillLevel /\ fillLevel < 70)
        /\ (color = "#10B981") <=> (fillLevel < 50)

\* The marker of a bin with fill level 90 is rendered red.
C7_Witness == fillLevel = 90 /\ color = "#EF4444"

\* C8: submitReport leaves the text empty, the image list empty and the modal
\* closed, and raises the success alert, whatever the draft was.
C8_SubmitClearsDraft ==
    [][event' = "submitReport"
        => /\ reportText' = ""
           /\ images' = <<>>
           /\ ~reportVisible'
           /\ alerts' = Append(alerts, "Success")]_vars

\* A report has been submitted: it was logged and acknowledged, and the
\* draft is empty.
C8_Witness ==
    /\ event = "submitReport"
    /\ console = <<"Report Submitted:">>
    /\ alerts = <<"Success">>
    /\ images = <<>>

\* C9, as claimed: after Cancel the report text and the image list are empty.
C9_CancelDiscardsDraft ==
    event = "cancelReport" => (reportText = "" /\ images = <<>>)

\* C10: the draft image list is the concatenation of the asset lists of the
\* picks completed since the last submit, in the order they completed.
C10_ImagesAreConcatenationOfPicks == images = picked

\* Two images were picked, then three: five, first pick first.
C10_Witness ==
    /\ event = "pickImagesResolve"
    /\ images = <<"u1", "u2", "u3", "u4", "u5">>

\* C11: a step that handles a failure of the initial load (the permission
\* request, the position fix or the bins query throwing) raises exactly one
\* alert, the error alert; a step that handles a failed refresh raises none.
\* Either step clears loading and issues no call.
C11_AlertOnInitialFailureOnly ==
    [][/\ event' \in {"PermissionReject", "PositionReject", "InitialFetchReject"}
            => /\ alerts' = Append(alerts, "Error")
               /\ ~loading'
               /\ calls' = calls
               /\ pending' \subseteq pending
       /\ event' = "RefreshReject"
            => /\ alerts' = alerts
               /\ ~loading'
               /\ calls' = calls
               /\ pending' \subseteq pending]_vars

\* The initial load succeeded and a refresh failed: nothing has been alerted.
C11_Witness ==
    /\ event = "RefreshReject"
    /\ alerts = <<>>
    /\ console = <<"Error refreshing bins:">>

\* C12: the markers rendered are one per bin of the last successful
\* response, in number and by key, the keys distinct; and the location is set
\* in every state where the bin list is not empty.
C12_OneMarkerPerBin ==
    /\ bins # <<>> => location # Null
    /\ Len(Markers) = Len(lastResponse)
    /\ \A i \in 1 .. Len(lastResponse) : Markers[i].key = lastResponse[i]._id
    /\ \A i, j \in 1 .. Len(Markers) : Markers[i].key = Markers[j].key => i = j

\* A fetch returned two bins and two markers are rendered, "a" red and "b"
\* green.
C12_Witness ==
    /\ event = "InitialFetchResolve"
    /\ Len(Markers) = 2
    /\ Markers[1].key = "a" /\ Markers[1].backgroundColor = "#EF4444"
    /\ Markers[2].key = "b" /\ Markers[2].backgroundColor = "#10B981"

\* C13: every getBinsNearby call issued, by the initial load or by a refresh,
\* has radius 500 and the latitude and longitude of the location the initial
\* load stored from its position fix.
C13_CallsUseLocationAndRadius ==
    \A i \in 1 .. Len(calls) :
        /\ location # Null
        /\ calls[i].radius = 500
        /\ calls[i].latitude = Val(location).latitude
        /\ calls[i].longitude = Val(location).longitude

\* A refresh has issued the second call, from the second position.
C13_Witness ==
    /\ Len(calls) = 2
    /\ calls[2] = [origin |-> "refresh", latitude |-> 41000, longitude |-> -74000,
                   radius |-> 500]

\* C14: the selection, once set, is never null again, and it changes only
\* when a marker is pressed, to the bin of that marker (one of the bins
\* rendered at the press).
C14_SelectionOnlyByMarkerPress ==
    [][/\ selectedBin # Null => selectedBin' # Null
       /\ selectedBin' # selectedBin => event' = "MarkerPress"
       /\ event' = "MarkerPress"
            => /\ selectedBin' # Null
               /\ Val(selectedBin') \in Range(bins)]_vars

\* A bin was selected and a later refresh returned no bins: the selection is
\* still there.
C14_Witness ==
    /\ selectedBin # Null
    /\ event = "RefreshResolve"
    /\ bins = <<>>

\* C15: a step that handles a cancelled image pick changes no state of the
\* screen (image list, report text, modal visibility and the rest), issues
\* no call and raises no alert.
C15_CancelledPickIsNoop ==
    [][event' = "pickImagesCanceled"
        => UNCHANGED <<screen, initPc, pending, calls, alerts, console>>]_vars

\* A pick was cancelled with images of an earlier pick in the draft.
C15_Witness ==
    /\ event = "pickImagesCanceled"
    /\ images # <<>>
    /\ reportVisible

\* C16: a step that selects a bin changes selectedBin only: the bin list,
\* location, loading, the report modal's visibility, text and images stay,
\* and no call is issued and no alert raised.
C16_SelectChangesSelectionOnly ==
    [][event' = "MarkerPress"
        => UNCHANGED <<location, bins, loading, reportVisible, reportText, images,
                       initPc, pending, pick, calls, alerts, console>>]_vars

\* A bin was selected while the report modal was open with a draft and a
\* refresh was in flight.
C16_Witness ==
    /\ event = "MarkerPress"
    /\ selectedBin # Null
    /\ reportVisible
    /\ reportText # ""
    /\ loading

\* C17: while the initial load or a refresh's fetch is in flight, loading is
\* true.
C17_LoadingCoversLoads ==
    (initPc # "done" \/ pending # {}) => loading

\* The second call, a refresh's, is in flight with the report modal open.
C17_Witness ==
    /\ initPc = "done"
    /\ pending = {2}
    /\ loading
    /\ reportVisible

\* C18: no step of a refresh (the press, the response, the failure) changes
\* selectedBin; it keeps the record the marker press stored, whether or not
\* the new list holds a bin with that id.
C18_RefreshKeepsSelection ==
    [][event' \in {"refreshBins", "RefreshResolve", "RefreshReject"}
        => selectedBin' = selectedBin]_vars

\* Bin "b" was selected at fill level 40; a refresh returned it at 72 and
\* the selection still holds the record with 40.
C18_Witness ==
    /\ event = "RefreshResolve"
    /\ selectedBin = Some(Bin("b", -73002, 40002, 40))
    /\ bins = << Bin("b", -73002, 40002, 72) >>

\* C19: the location is written by one kind of step only, the initial load's
\* continuation of the position fix, which writes it once, from null to the
\* fix, and issues the initial call with the same coordinates; a failure of
\* that call leaves it set.
C19_LocationWrittenOnce ==
    [][/\ location' # location
            => /\ event' = "PositionResolve"
               /\ location = Null
               /\ location' # Null
               /\ calls' = Append(calls, [origin |-> "initial",
                                          latitude |-> Val(location').latitude,
                                          longitude |-> Val(location').longitude,
                                          radius |-> 500])
       /\ event' = "InitialFetchReject"
            => /\ location' = location
               /\ location' # Null]_vars

\* The initial bins query failed and the location is set.
C19_Witness ==
    /\ event = "InitialFetchReject"
    /\ location # Null
    /\ bins = <<>>

\* C20: a step that handles the permission request or the position fix
\* throwing ends the initial load with the location unset, no call issued and
\* no bins; and from a state like that every step leads to a state like
\* that, a refresh included.
C20_NoLoadAfterEarlyFailure ==
    [][/\ event' \in {"PermissionReject", "PositionReject"}
            => /\ initPc' = "done"
               /\ location' = Null
               /\ calls' = <<>>
               /\ bins' = <<>>
       /\ (initPc = "done" /\ location = Null /\ calls = <<>> /\ bins = <<>>)
            => /\ initPc' = "done"
               /\ location' = Null
               /\ calls' = <<>>
               /\ bins' = <<>>]_vars

\* The position fix threw, and Refresh has been pressed since.
C20_Witness ==
    /\ event = "refreshBins"
    /\ permResult = "granted"
    /\ alerts = <<"Error">>
    /\ location = Null
    /\ pending = {}

====
